---- MODULE Spec2Model ----
(***************************************************************************)
(* A model of updown: the storage gateway (src/src/lib.rs), the scheduler  *)
(* and prober of the watch binary (src/src/bin/watch.rs), the rollback     *)
(* binary (src/src/bin/rollback.rs) and the signup / add-site handlers of  *)
(* the web server (src/src/main.rs).                                       *)
(***************************************************************************)
EXTENDS Integers, Sequences, FiniteSets, TLC

\* ------------------------------------------------------------------ bounds
MaxVersion == 3
MaxOps == 3
MaxClock == 2
Resolution == 2
MaxTicks == 2
MaxSites == 2
MaxUsers == 1
MaxCodes == 2
MaxWebUsers == 2
MaxAuths == 2
MaxRows == 3

VARIABLES
    clock,      \* the wall clock read by Database::now, in 1/Resolution seconds
    users,      \* table users
    logins,     \* table logins
    sites,      \* table sites
    responses,  \* table responses
    session,    \* "user_id" of the browser session (0: absent)
    res,        \* the last HTTP response rendered by a handler
    serverPc,   \* the web server's main: "start", "serving" or "halted"
    auths,      \* per user: the handlers that stored the user's id in a session
    kinds,      \* the static migration list: each version simple or reversible
    ledger,     \* table _sqlx_migrations: the versions recorded as applied
    schema,     \* the versions whose schema objects exist in the database
    oplog,      \* history of migrate() and rollback() calls
    tasks,      \* the monitor tasks spawned so far, one per tick
    rets,       \* per (site, status): the rows returned by upsert_response
    lastDone,   \* per site: status of the most recently completed upsert
    reqlog      \* the last site-creating request and what it found

vars == <<clock, users, logins, sites, responses, session, res, serverPc, auths,
          kinds, ledger, schema, oplog, tasks, rets, lastDone, reqlog>>

dbVars == <<users, logins, sites, responses>>
webVars == <<session, res, reqlog, serverPc, auths>>
migVars == <<kinds, ledger, schema, oplog>>
schedVars == <<tasks, rets, lastDone>>

\* ------------------------------------------------------------- migrations
Versions == 1..MaxVersion

MigrationKinds == {"Simple", "Reversible"}

\* The entries sqlx::migrate!() embeds for one version: a simple migration is
\* one entry, a reversible one is an up entry and a down entry.
EntriesOf(v, k) ==
    IF k = "Simple"
    THEN << [version |-> v, migration_type |-> "Simple"] >>
    ELSE << [version |-> v, migration_type |-> "ReversibleUp"],
            [version |-> v, migration_type |-> "ReversibleDown"] >>

RECURSIVE MigrationsUpTo(_)
MigrationsUpTo(v) ==
    IF v = 0 THEN << >> ELSE MigrationsUpTo(v - 1) \o EntriesOf(v, kinds[v])

\* sqlx::migrate!().migrations, ordered by version
migrations == MigrationsUpTo(MaxVersion)

is_down_migration(m) == m.migration_type = "ReversibleDown"

\* The up script of a version creates its schema objects.
UpScript(v, sch) == sch \cup {v}

\* The reverse script of a version drops its schema objects; it fails when
\* they are not there.
DownScriptRuns(v, sch) == v \in sch

DownScript(v, sch) == sch \ {v}

\* Migrator::run over the list from entry i on: down entries are skipped,
\* applied versions are skipped, every other entry is applied and recorded
\* in one transaction; the run stops at the first failing step (failAt).
RECURSIVE RunFrom(_, _, _, _)
RunFrom(i, led, sch, failAt) ==
    IF i > Len(migrations)
    THEN [ledger |-> led, schema |-> sch, result |-> "Ok"]
    ELSE LET m == migrations[i] IN
         IF is_down_migration(m) \/ m.version \in led
         THEN RunFrom(i + 1, led, sch, failAt)
         ELSE IF m.version = failAt
              THEN [ledger |-> led, schema |-> sch, result |-> "Migrate"]
              ELSE RunFrom(i + 1, led \cup {m.version},
                           UpScript(m.version, sch), failAt)

OpEntry(op, result, version, scriptRan, led, sch) ==
    [op |-> op, result |-> result, version |-> version, scriptRan |-> scriptRan,
     ledgerBefore |-> ledger, schemaBefore |-> schema,
     ledgerAfter |-> led, schemaAfter |-> sch]

\* Database::migrate
Migrate ==
    /\ Len(oplog) < MaxOps
    /\ \E failAt \in 0..MaxVersion :
         LET r == RunFrom(1, ledger, schema, failAt) IN
         /\ ledger' = r.ledger
         /\ schema' = r.schema
         /\ oplog' = Append(oplog,
                OpEntry("migrate", r.result, 0, FALSE, r.ledger, r.schema))
    /\ UNCHANGED <<clock, dbVars, webVars, schedVars, kinds>>

\* main.rs, line 34: migrate().await.expect(..) panics on an error, before the
\* listener is bound.
AfterMigrateIgnored(result) == "serving"

AfterMigrate(result) == IF result = "Ok" THEN "serving" ELSE "halted"

\* main of the web server: migrate, then serve.
ServerMain ==
    /\ serverPc = "start"
    /\ Len(oplog) < MaxOps
    /\ \E failAt \in 0..MaxVersion :
         LET r == RunFrom(1, ledger, schema, failAt) IN
         /\ ledger' = r.ledger
         /\ schema' = r.schema
         /\ oplog' = Append(oplog,
                OpEntry("migrate", r.result, 0, FALSE, r.ledger, r.schema))
         /\ serverPc' = AfterMigrate(r.result)
    /\ UNCHANGED <<clock, dbVars, session, res, reqlog, auths, schedVars, kinds>>

\* rollback, lines 110-113: the down entries of the static list.
DownMigrationsApplied ==
    SelectSeq(migrations, LAMBDA m : is_down_migration(m) /\ m.version \in ledger)

DownMigrations == SelectSeq(migrations, is_down_migration)

\* rollback, lines 117-121: the reverse script is executed; scriptErr is a
\* storage failure.
ScriptOkIgnored(version, scriptErr) == TRUE

ScriptOk(version, scriptErr) == DownScriptRuns(version, schema) /\ ~scriptErr

\* rollback, lines 122-126: delete from _sqlx_migrations where version = ?
DeleteLedgerRowsUpTo(led, version) == {v \in led : v > version}

DeleteLedgerRow(led, version) == led \ {version}

\* rollback, line 127: a failed script ends the call; the ledger statement
\* is not run.
LedgerAfterScriptErrDeleted(led, version) == led \ {version}

LedgerAfterScriptErr(led, version) == led

\* rollback, lines 122-126: no transaction spans the two statements, so a
\* failed ledger statement leaves what the script did.
SchemaAfterDeleteErrRestored(sch, version) == sch

SchemaAfterDeleteErr(sch, version) == DownScript(version, sch)

\* What rollback() does once it has run, given the outcome of its steps.
RollbackEffect(result, version, scriptRan, led, sch) ==
    /\ ledger' = led
    /\ schema' = sch
    /\ oplog' = Append(oplog,
           OpEntry("rollback", result, version, scriptRan, led, sch))
    /\ UNCHANGED <<clock, dbVars, webVars, schedVars, kinds>>

\* Database::rollback; scriptErr and deleteErr are storage failures of the
\* two statements.
Rollback ==
    /\ Len(oplog) < MaxOps
    /\ \E scriptErr \in BOOLEAN, deleteErr \in BOOLEAN :
         LET downs == DownMigrations IN
         IF downs # << >>
         THEN LET migration == downs[Len(downs)]
                  version == migration.version
              IN IF is_down_migration(migration)
                 THEN IF ScriptOk(version, scriptErr)
                      THEN IF ~deleteErr
                           THEN RollbackEffect("Ok", version, TRUE,
                                    DeleteLedgerRow(ledger, version),
                                    DownScript(version, schema))
                           ELSE RollbackEffect("Rollback", version, TRUE,
                                    ledger, SchemaAfterDeleteErr(schema, version))
                      ELSE RollbackEffect("Rollback", version, FALSE,
                               LedgerAfterScriptErr(ledger, version), schema)
                 ELSE RollbackEffect("Rollback", 0, FALSE, ledger, schema)
         ELSE RollbackEffect("Rollback", 0, FALSE, ledger, schema)

\* ---------------------------------------------------------------- gateway
SiteIds == 1..MaxSites

Codes == 1..MaxCodes

\* What a probe can answer: real HTTP statuses.
Statuses == {200, 500}

Urls == {"", "https://a.test"}

Pairs == SiteIds \X Statuses

Ids(tbl) == {r.id : r \in tbl}

\* The rowid SQLite gives the next inserted row.
NextId(tbl) ==
    IF tbl = {} THEN 1 ELSE 1 + CHOOSE m \in Ids(tbl) : \A n \in Ids(tbl) : n <= m

UserIds == 1..MaxWebUsers

\* The tables are there once every forward migration has run.
TablesExist == schema = Versions

\* Database::now: the wall clock as f64 seconds (here in 1/Resolution s).
now == clock

\* A timestamp column read back into an i64 field: the stored f64 loses its
\* fraction.
AsI64(t) == t \div Resolution

\* Database::insert_user, once the statement runs with login code `code`.
insert_user(tbl, code) ==
    tbl \cup {[id |-> NextId(tbl), login_code |-> code,
               created_at |-> now, updated_at |-> now]}

LoginCodeAny(tbl, code) == TRUE

\* The unique index on users.login_code.
LoginCodeFree(tbl, code) == \A u \in tbl : u.login_code # code

insert_login_replacing(tbl, new_login) ==
    {l \in tbl : l.user_id # new_login.user_id}
        \cup {[id |-> NextId(tbl), user_id |-> new_login.user_id,
                created_at |-> now]}

\* Database::insert_login
insert_login(tbl, new_login) ==
    tbl \cup {[id |-> NextId(tbl), user_id |-> new_login.user_id,
               created_at |-> now]}

\* Database::insert_site: the row is inserted with the url it is given.
insert_site(tbl, site) ==
    tbl \cup {[id |-> NextId(tbl), user_id |-> site.user_id, url |-> site.url,
               created_at |-> now, updated_at |-> now]}

\* Database::sites: select * from sites, in rowid order.
RECURSIVE SitesFrom(_, _)
SitesFrom(tbl, id) ==
    IF id > MaxSites + 1 THEN << >>
    ELSE (IF \E s \in tbl : s.id = id
          THEN << [id |-> id, url |-> (CHOOSE s \in tbl : s.id = id).url] >>
          ELSE << >>) \o SitesFrom(tbl, id + 1)

SitesList == SitesFrom(sites, 1)

SamePair(r, response) ==
    r.status_code = response.status_code /\ r.site_id = response.site_id

upsert_always_insert(tbl, response, t) ==
    tbl \cup {[id |-> NextId(tbl), status_code |-> response.status_code,
               site_id |-> response.site_id, created_at |-> t, updated_at |-> t]}

upsert_replace(tbl, response, t) ==
    IF \E r \in tbl : SamePair(r, response)
    THEN {IF SamePair(r, response)
          THEN [r EXCEPT !.created_at = t, !.updated_at = t] ELSE r : r \in tbl}
    ELSE upsert_always_insert(tbl, response, t)

\* Database::upsert_response, the statement: insert, or on a conflict on
\* (status_code, site_id) set updated_at; t is the `now` bound to it.
upsert_response(tbl, response, t) ==
    IF \E r \in tbl : SamePair(r, response)
    THEN {IF SamePair(r, response) THEN [r EXCEPT !.updated_at = t] ELSE r
              : r \in tbl}
    ELSE tbl \cup {[id |-> NextId(tbl), status_code |-> response.status_code,
                    site_id |-> response.site_id,
                    created_at |-> t, updated_at |-> t]}

\* `returning *` decoded into models::Response (i64 timestamps).
Returned(tbl, response) ==
    LET r == CHOOSE x \in tbl : SamePair(x, response) IN
    [id |-> r.id, status_code |-> r.status_code, site_id |-> r.site_id,
     created_at |-> AsI64(r.created_at), updated_at |-> AsI64(r.updated_at)]

\* latest_response_for_site: the rows of the site with the greatest updated_at
\* (no row: the lookup fails).
LatestRows(site_id) ==
    {r \in responses : /\ r.site_id = site_id
                       /\ \A o \in responses :
                            o.site_id = site_id => o.updated_at <= r.updated_at}

\* ------------------------------------------------------------------ clock
\* Time passes.
Advance ==
    /\ clock < MaxClock
    /\ clock' = clock + 1
    /\ UNCHANGED <<dbVars, webVars, migVars, schedVars>>

\* ------------------------------------------------------------- web server
Last2(q) == IF Len(q) > 2 THEN SubSeq(q, Len(q) - 1, Len(q)) ELSE q

ReqEntry(op, url, sitesAfter) ==
    << [op |-> op, url |-> url, sitesBefore |-> sites, sitesAfter |-> sitesAfter] >>

\* The signup handler. parsed: the body parses as SignupParams; code: the
\* login code nanoid!() draws; userErr, loginErr, siteErr: storage failures
\* of the three inserts.
SignupHandler(maxUsers) ==
    /\ serverPc = "serving"
    /\ Cardinality(users) < maxUsers
    /\ Cardinality(sites) < MaxSites
    /\ \E parsed \in BOOLEAN, url \in Urls, code \in Codes,
          userErr \in BOOLEAN, loginErr \in BOOLEAN, siteErr \in BOOLEAN :
         IF parsed
         THEN LET status == IF url = "" THEN 422 ELSE 200 IN
              IF LoginCodeFree(users, code) /\ ~userErr
              THEN LET users1 == insert_user(users, code)
                       user == CHOOSE u \in users1 : u \notin users
                       login_row == [id |-> 0, user_id |-> user.id, created_at |-> 0]
                       site == [id |-> 0, user_id |-> user.id, url |-> url]
                       sites1 == IF siteErr THEN sites ELSE insert_site(sites, site)
                   IN /\ users' = users1
                      /\ session' = user.id
                      /\ auths' = [auths EXCEPT ![user.id] = Append(@, "signup")]
                      /\ logins' = IF loginErr THEN logins
                                   ELSE insert_login(logins, login_row)
                      /\ sites' = sites1
                      /\ res' = [status |-> status, body |-> "User", by |-> "signup"]
                      /\ reqlog' = ReqEntry("signup", url, sites1)
              ELSE /\ res' = [status |-> 401, body |-> "Login", by |-> "signup"]
                   /\ reqlog' = ReqEntry("signup", url, sites)
                   /\ UNCHANGED <<users, logins, sites, session, auths>>
         ELSE /\ res' = [status |-> 401, body |-> "Login", by |-> "signup"]
              /\ UNCHANGED <<users, logins, sites, session, auths, reqlog>>
    /\ UNCHANGED <<clock, responses, serverPc, migVars, schedVars>>

\* signup, next to the scheduler and in the web server alone.
signup == SignupHandler(MaxUsers)

signupWeb == SignupHandler(MaxWebUsers)

\* The login handler on one request. parsed: the body parses as LoginParams;
\* selectErr, loginErr: storage failures of the lookup and of the insert.
LoginRequestTrusting(parsed, login_code, selectErr, loginErr) ==
    /\ serverPc = "serving"
    /\ session' = IF users = {} THEN session
                  ELSE (CHOOSE u \in users : TRUE).id
    /\ res' = [status |-> 200, body |-> "User", by |-> "login"]
    /\ UNCHANGED <<clock, users, logins, sites, responses, reqlog, serverPc,
                   auths, migVars, schedVars>>

LoginRequest(parsed, login_code, selectErr, loginErr) ==
    /\ serverPc = "serving"
    /\ LET found == {u \in users : u.login_code = login_code} IN
       IF parsed /\ found # {} /\ ~selectErr
       THEN LET user == CHOOSE u \in found : TRUE
                login_row == [id |-> 0, user_id |-> user.id, created_at |-> 0]
            IN /\ Len(auths[user.id]) < MaxAuths
               /\ session' = user.id
               /\ auths' = [auths EXCEPT ![user.id] = Append(@, "login")]
               /\ logins' = IF loginErr THEN logins
                            ELSE insert_login(logins, login_row)
               /\ res' = [status |-> 200, body |-> "User", by |-> "login"]
       ELSE /\ res' = [status |-> 401, body |-> "Login", by |-> "login"]
            /\ UNCHANGED <<logins, session, auths>>
    /\ UNCHANGED <<clock, users, sites, responses, reqlog, serverPc, migVars,
                   schedVars>>

login ==
    \E parsed \in BOOLEAN, login_code \in Codes,
       selectErr \in BOOLEAN, loginErr \in BOOLEAN :
        LoginRequest(parsed, login_code, selectErr, loginErr)

\* The logout handler: the session's user id is removed when user_by_id
\* finds its user (selectErr: the lookup fails).
logout ==
    /\ serverPc = "serving"
    /\ \E selectErr \in BOOLEAN :
         session' = IF ~selectErr /\ \E u \in users : u.id = session
                    THEN 0 ELSE session
    /\ res' = [status |-> 200, body |-> "User", by |-> "logout"]
    /\ UNCHANGED <<clock, dbVars, reqlog, serverPc, auths, migVars, schedVars>>

onadd_for_anyone ==
    /\ serverPc = "serving"
    /\ Cardinality(sites) < MaxSites
    /\ \E url \in Urls, siteErr \in BOOLEAN :
         LET user_id == session IN
         IF url = "" \/ siteErr
         THEN /\ sites' = sites
              /\ reqlog' = ReqEntry("onadd", url, sites)
         ELSE LET site == [id |-> 0, user_id |-> user_id, url |-> url]
                  sites1 == insert_site(sites, site)
              IN /\ sites' = sites1
                 /\ reqlog' = ReqEntry("onadd", url, sites1)
    /\ UNCHANGED <<clock, users, logins, responses, session, res, serverPc, auths,
                   migVars, schedVars>>

\* Monitors::onadd, the add-site form: user_id is the current user's id, 0
\* when there is none.
onadd ==
    /\ serverPc = "serving"
    /\ Cardinality(sites) < MaxSites
    /\ \E url \in Urls, siteErr \in BOOLEAN :
         LET user_id == session IN
         IF user_id = 0 \/ url = "" \/ siteErr
         THEN /\ sites' = sites
              /\ reqlog' = ReqEntry("onadd", url, sites)
         ELSE LET site == [id |-> 0, user_id |-> user_id, url |-> url]
                  sites1 == insert_site(sites, site)
              IN /\ sites' = sites1
                 /\ reqlog' = ReqEntry("onadd", url, sites1)
    /\ UNCHANGED <<clock, users, logins, responses, session, res, serverPc, auths,
                   migVars, schedVars>>

\* -------------------------------------------------------------- scheduler
NewTask ==
    [pc |-> "sites", sites |-> << >>, i |-> 1, status_code |-> 0, now |-> 0,
     result |-> "running", probed |-> {}, stored |-> {},
     probes |-> << >>, upserts |-> << >>,
     at |-> clock, seen |-> {tasks[k].result : k \in 1..Len(tasks)}]

Finish(task, result) == [task EXCEPT !.pc = "done", !.result = result]

\* interval.tick(): the first tick completes at once, each later one a
\* period after the one before, so at a later clock reading.
IntervalDue == IF tasks = << >> THEN TRUE ELSE clock > tasks[Len(tasks)].at

MainTickJoined ==
    /\ Len(tasks) < MaxTicks
    /\ IntervalDue
    /\ \A k \in 1..Len(tasks) : tasks[k].result = "Ok"
    /\ tasks' = Append(tasks, NewTask)
    /\ UNCHANGED <<clock, dbVars, webVars, migVars, rets, lastDone>>

MainTickAwaited ==
    /\ Len(tasks) < MaxTicks
    /\ IntervalDue
    /\ \A k \in 1..Len(tasks) : tasks[k].pc = "done"
    /\ tasks' = Append(tasks, NewTask)
    /\ UNCHANGED <<clock, dbVars, webVars, migVars, rets, lastDone>>

\* watch's main loop: the interval fires and monitor() is spawned, without
\* waiting for any task spawned before.
MainTick ==
    /\ Len(tasks) < MaxTicks
    /\ IntervalDue
    /\ tasks' = Append(tasks, NewTask)
    /\ UNCHANGED <<clock, dbVars, webVars, migVars, rets, lastDone>>

\* monitor, line 26: db().await.sites().await?
MonitorSites(t) ==
    /\ tasks[t].pc = "sites"
    /\ \E outcome \in {"Ok", "Err", "Panic"} :
         /\ outcome = "Ok" => TablesExist
         /\ tasks' = [tasks EXCEPT ![t] =
            IF outcome # "Ok" THEN Finish(@, outcome)
            ELSE IF SitesList = << >> THEN Finish(@, "Ok")
            ELSE [@ EXCEPT !.pc = "probe", !.sites = SitesList]]
    /\ UNCHANGED <<clock, dbVars, webVars, migVars, rets, lastDone>>

\* What reqwest::get(url) can come to: an HTTP status, or a network-level
\* error; an empty url is no URL and always fails.
NetErr == [ok |-> FALSE, status |-> 0]

ProbeOutcomes(url) ==
    IF url = "" THEN {NetErr}
    ELSE {NetErr} \cup {[ok |-> TRUE, status |-> c] : c \in Statuses}

MonitorProbeRetrying(t) ==
    /\ tasks[t].pc = "probe"
    /\ LET site == tasks[t].sites[tasks[t].i] IN
       \E outcome \in ProbeOutcomes(site.url) :
         tasks' = [tasks EXCEPT ![t] =
            LET seen == [@ EXCEPT !.probed = @ \cup {<<site.id, outcome>>},
                                  !.probes = Append(@, site.id)] IN
            IF ~outcome.ok
            THEN (IF Len(seen.probes) <= tasks[t].i THEN seen
                  ELSE Finish(seen, "Err"))
            ELSE [seen EXCEPT !.pc = "upsert", !.status_code = outcome.status]]
    /\ UNCHANGED <<clock, dbVars, webVars, migVars, rets, lastDone>>

\* monitor, line 28: response(&site).await?
MonitorProbe(t) ==
    /\ tasks[t].pc = "probe"
    /\ LET site == tasks[t].sites[tasks[t].i] IN
       \E outcome \in ProbeOutcomes(site.url) :
         tasks' = [tasks EXCEPT ![t] =
            LET seen == [@ EXCEPT !.probed = @ \cup {<<site.id, outcome>>},
                                  !.probes = Append(@, site.id)] IN
            IF ~outcome.ok THEN Finish(seen, "Err")
            ELSE [seen EXCEPT !.pc = "upsert", !.status_code = outcome.status]]
    /\ UNCHANGED <<clock, dbVars, webVars, migVars, rets, lastDone>>

\* monitor, line 29, first half: db().await, then upsert_response reads now().
MonitorUpsertNow(t) ==
    /\ tasks[t].pc = "upsert"
    /\ \E connected \in BOOLEAN :
         tasks' = [tasks EXCEPT ![t] =
            IF connected
            THEN [@ EXCEPT !.pc = "exec", !.now = now,
                           !.upserts = Append(@, tasks[t].sites[tasks[t].i].id)]
            ELSE Finish(@, "Panic")]
    /\ UNCHANGED <<clock, dbVars, webVars, migVars, rets, lastDone>>

\* monitor, line 29, second half: the upsert statement runs, and the loop
\* goes on to the next site.
MonitorUpsertExec(t) ==
    /\ tasks[t].pc = "exec"
    /\ LET task == tasks[t]
           site == task.sites[task.i]
           response == [status_code |-> task.status_code, site_id |-> site.id]
       IN \E stmtErr \in BOOLEAN :
            IF stmtErr \/ ~TablesExist
            THEN /\ tasks' = [tasks EXCEPT ![t] = Finish(@, "Err")]
                 /\ UNCHANGED <<responses, rets, lastDone>>
            ELSE LET tbl == upsert_response(responses, response, task.now)
                     next == [task EXCEPT !.stored = @ \cup {site.id},
                                          !.i = @ + 1, !.pc = "probe"]
                 IN /\ responses' = tbl
                    /\ rets' = [rets EXCEPT ![<<site.id, task.status_code>>] =
                                   Last2(Append(@, [tick |-> t,
                                                    row |-> Returned(tbl, response)]))]
                    /\ lastDone' = [lastDone EXCEPT ![site.id] = task.status_code]
                    /\ tasks' = [tasks EXCEPT ![t] =
                          IF task.i = Len(task.sites) THEN Finish(next, "Ok")
                          ELSE next]
    /\ UNCHANGED <<clock, users, logins, sites, webVars, migVars>>

\* The next step of monitor task t, whichever it is.
MonitorStep(t) ==
    /\ t \in 1..Len(tasks)
    /\ \/ MonitorSites(t)
       \/ MonitorProbe(t)
       \/ MonitorUpsertNow(t)
       \/ MonitorUpsertExec(t)

\* pool, line 148: the most connections one pool opens.
max_connections == 5

\* watch.rs, db(): every call builds a new Database, so a new pool. The
\* pool a monitor task built for its upsert lives, with the connection its
\* statement runs on, until the statement is done.
PoolsOpen == {t \in 1..Len(tasks) : tasks[t].pc = "exec"}

ConnectionsOpen == Cardinality(PoolsOpen)

\* ------------------------------------------------------------------ Init
InitData ==
    /\ clock = 0
    /\ users = {}
    /\ logins = {}
    /\ sites = {}
    /\ responses = {}
    /\ session = 0
    /\ res = [status |-> 0, body |-> "none", by |-> "none"]
    /\ auths = [u \in UserIds |-> << >>]
    /\ oplog = << >>
    /\ tasks = << >>
    /\ rets = [p \in Pairs |-> << >>]
    /\ lastDone = [s \in SiteIds |-> 0]
    /\ reqlog = << >>

\* The rollback binary and migrate() on a database file: any static list of
\* migrations, the database new.
InitMigrate ==
    /\ InitData
    /\ serverPc = "start"
    /\ kinds \in [Versions -> MigrationKinds]
    /\ ledger = {}
    /\ schema = {}

NextMigrate == Migrate \/ Rollback

SpecMigrate == InitMigrate /\ [][NextMigrate]_vars

\* The watch binary next to a web server that has bound its listener, on the
\* database the server's start has migrated.
Init ==
    /\ InitData
    /\ serverPc = "serving"
    /\ kinds = [v \in Versions |-> "Reversible"]
    /\ ledger = Versions
    /\ schema = Versions

Next ==
    \/ Advance
    \/ signup
    \/ onadd
    \/ MainTick
    \/ \E t \in 1..Len(tasks) : MonitorSites(t)
    \/ \E t \in 1..Len(tasks) : MonitorProbe(t)
    \/ \E t \in 1..Len(tasks) : MonitorUpsertNow(t)
    \/ \E t \in 1..Len(tasks) : MonitorUpsertExec(t)

Spec == Init /\ [][Next]_vars

\* The web server alone, from its start on the database left by an earlier
\* start that applied the first n migrations.
InitWeb ==
    /\ InitData
    /\ serverPc = "start"
    /\ kinds = [v \in Versions |-> "Reversible"]
    /\ \E n \in 0..MaxVersion : ledger = 1..n /\ schema = 1..n

NextWeb ==
    \/ Advance
    \/ ServerMain
    \/ signupWeb
    \/ onadd
    \/ login
    \/ logout

SpecWeb == InitWeb /\ [][NextWeb]_vars

\* The gateway's operations called with any arguments, in any order, next to
\* the handlers of a server that has bound its listener.
Rows == Cardinality(users) + Cardinality(logins) + Cardinality(sites)
            + Cardinality(responses)

\* Database::insert_user: nanoid!() draws `code`; the statement fails on a
\* storage error or when the code is taken.
InsertUser ==
    /\ Rows < MaxRows
    /\ Cardinality(users) < MaxWebUsers
    /\ \E code \in Codes, err \in BOOLEAN :
         users' = IF ~err /\ LoginCodeFree(users, code)
                  THEN insert_user(users, code) ELSE users
    /\ UNCHANGED <<clock, logins, sites, responses, webVars, migVars, schedVars>>

InsertLogin ==
    /\ Rows < MaxRows
    /\ \E user_id \in UserIds, err \in BOOLEAN :
         logins' = IF err THEN logins
                   ELSE insert_login(logins, [id |-> 0, user_id |-> user_id,
                                              created_at |-> 0])
    /\ UNCHANGED <<clock, users, sites, responses, webVars, migVars, schedVars>>

InsertSite ==
    /\ Rows < MaxRows
    /\ Cardinality(sites) < MaxSites
    /\ \E user_id \in UserIds, url \in Urls, err \in BOOLEAN :
         sites' = IF err THEN sites
                  ELSE insert_site(sites, [user_id |-> user_id, url |-> url])
    /\ UNCHANGED <<clock, users, logins, responses, webVars, migVars, schedVars>>

UpsertResponse ==
    /\ Rows < MaxRows
    /\ \E site_id \in SiteIds, status_code \in Statuses, err \in BOOLEAN :
         responses' = IF err THEN responses
                      ELSE upsert_response(responses,
                               [status_code |-> status_code, site_id |-> site_id],
                               now)
    /\ UNCHANGED <<clock, users, logins, sites, webVars, migVars, schedVars>>

NextGateway ==
    \/ Advance
    \/ InsertUser
    \/ InsertLogin
    \/ InsertSite
    \/ UpsertResponse
    \/ Rows < MaxRows /\ signupWeb
    \/ Rows < MaxRows /\ login
    \/ Rows < MaxRows /\ onadd
    \/ logout

SpecGateway == Init /\ [][NextGateway]_vars

\* The watch binary started on a database file: a new one, one an earlier
\* start of the server left partly migrated, or a migrated one that holds a
\* user and the user's two sites. The server may start next to it.
SeedUsers == insert_user({}, 1)

SeedSites ==
    insert_site(insert_site({}, [user_id |-> 1, url |-> "https://a.test"]),
                [user_id |-> 1, url |-> "https://a.test"])

InitWatch ==
    /\ clock = 0
    /\ logins = {}
    /\ responses = {}
    /\ session = 0
    /\ res = [status |-> 0, body |-> "none", by |-> "none"]
    /\ auths = [u \in UserIds |-> << >>]
    /\ oplog = << >>
    /\ tasks = << >>
    /\ rets = [p \in Pairs |-> << >>]
    /\ lastDone = [s \in SiteIds |-> 0]
    /\ reqlog = << >>
    /\ serverPc = "start"
    /\ kinds = [v \in Versions |-> "Reversible"]
    /\ \E n \in 0..MaxVersion :
         /\ ledger = 1..n
         /\ schema = 1..n
         /\ users = IF n = MaxVersion THEN SeedUsers ELSE {}
         /\ sites = IF n = MaxVersion THEN SeedSites ELSE {}

NextWatch ==
    \/ Advance
    \/ ServerMain
    \/ MainTick
    \/ \E t \in 1..Len(tasks) : MonitorSites(t)
    \/ \E t \in 1..Len(tasks) : MonitorProbe(t)
    \/ \E t \in 1..Len(tasks) : MonitorUpsertNow(t)
    \/ \E t \in 1..Len(tasks) : MonitorUpsertExec(t)

SpecWatch == InitWatch /\ [][NextWatch]_vars

\* The runtime drops the monitor tasks that have returned (their JoinHandle
\* is not kept): with no task in flight the finished ones are forgotten, with
\* what they returned, and the loop goes on ticking for ever.
Reap ==
    /\ tasks # << >>
    /\ \A t \in 1..Len(tasks) : tasks[t].pc = "done"
    /\ tasks' = << >>
    /\ rets' = [p \in Pairs |-> << >>]
    /\ lastDone' = [s \in SiteIds |-> 0]
    /\ UNCHANGED <<clock, dbVars, webVars, migVars>>

\* The watch binary alone, on the migrated database that holds the user and
\* the two sites.
InitWatchFair == InitWatch /\ ledger = Versions

NextWatchFair ==
    \/ Advance
    \/ MainTick
    \/ \E t \in 1..Len(tasks) : MonitorSites(t)
    \/ \E t \in 1..Len(tasks) : MonitorProbe(t)
    \/ \E t \in 1..Len(tasks) : MonitorUpsertNow(t)
    \/ \E t \in 1..Len(tasks) : MonitorUpsertExec(t)
    \/ Reap

\* The watch binary for ever, under a fair timer and a fair runtime: time
\* passes, a due tick fires, and a spawned task that can take a step takes
\* one.
SpecWatchFair ==
    /\ InitWatchFair
    /\ [][NextWatchFair]_vars
    /\ WF_vars(Advance)
    /\ WF_vars(MainTick)
    /\ WF_vars(Reap)
    /\ \A t \in 1..MaxTicks : WF_vars(MonitorStep(t))

\* ------------------------------------------------------------------ claims
RowsOf(site_id) == {r \in responses : r.site_id = site_id}

RowsOfPair(p) == {r \in responses : r.site_id = p[1] /\ r.status_code = p[2]}

Upserted(site_id) == {c \in Statuses : rets[<<site_id, c>>] # << >>}

\* C1: the responses table holds at most one row per (status_code, site_id),
\* and a site has as many rows as distinct status codes were upserted for it,
\* also when overlapping ticks upsert the same pair.
C1_OneRowPerPair ==
    /\ \A p \in Pairs : Cardinality(RowsOfPair(p)) <= 1
    /\ \A s \in SiteIds : Cardinality(RowsOf(s)) = Cardinality(Upserted(s))

\* Two overlapping ticks upserted the same pair, the later tick first.
C1_Witness ==
    \E p \in Pairs :
        /\ Len(rets[p]) = 2
        /\ rets[p][1].tick > rets[p][2].tick
        /\ Cardinality(RowsOfPair(p)) = 1

\* C2: two upserts of the same pair leave one row; the second call returns
\* the id the first returned and a strictly greater updated_at.
C2_StrictlyAdvances ==
    \A p \in Pairs :
        Len(rets[p]) = 2 =>
            /\ Cardinality(RowsOfPair(p)) = 1
            /\ rets[p][2].row.id = rets[p][1].row.id
            /\ rets[p][2].row.updated_at > rets[p][1].row.updated_at

ListedIn(task) == {task.sites[k].id : k \in 1..Len(task.sites)}

ProbedIn(task) == {po[1] : po \in task.probed}

\* The sites of a finished tick whose probe or upsert failed.
FailedIn(task) == ProbedIn(task) \ task.stored

\* C3: within a tick, the failure of site A's probe or upsert keeps no other
\* site B of the fetched list from being probed and stored.
C3_FailureIsolation ==
    \A t \in 1..Len(tasks) :
        tasks[t].pc = "done" =>
            \A a \in FailedIn(tasks[t]), b \in ListedIn(tasks[t]) :
                b # a => b \in tasks[t].stored \cup FailedIn(tasks[t])

\* C4: a probe that fails at the network level is recorded as a Response row
\* whose status is no real HTTP status, and does not end the tick in error.
C4_SentinelRecorded ==
    \A t \in 1..Len(tasks) :
        \A po \in tasks[t].probed :
            (~po[2].ok /\ tasks[t].pc = "done") =>
                /\ po[1] \in tasks[t].stored
                /\ \E r \in RowsOf(po[1]) : r.status_code \notin Statuses

\* C5: whatever became of the ticks dispatched so far (failed, panicked or
\* still running), the scheduler loop goes on: once the interval is due, the
\* next tick's monitor is dispatched.
C5_LoopGoesOn == (Len(tasks) < MaxTicks /\ IntervalDue) => ENABLED MainTick

\* A tick was dispatched after an earlier tick's task had failed or panicked.
C5_Witness ==
    \E t \in 1..Len(tasks) : tasks[t].seen \cap {"Err", "Panic"} # {}

\* C6: the latest response of a site carries the status of the most recently
\* completed upsert for the site; a site without a row has no latest response.
C6_LatestIsLastUpsert ==
    \A s \in SiteIds :
        /\ RowsOf(s) = {} <=> LatestRows(s) = {}
        /\ \A r \in LatestRows(s) : r.status_code = lastDone[s]

\* C7: a site-creating request with an empty url leaves the sites table as
\* it found it.
C7_EmptyUrlNoSite ==
    \A k \in 1..Len(reqlog) :
        reqlog[k].url = "" => reqlog[k].sitesAfter = reqlog[k].sitesBefore

Reversible == {v \in Versions : kinds[v] = "Reversible"}

\* The version of the last entry of the static list that is a down migration
\* (0: none).
LastReversible ==
    IF Reversible = {} THEN 0
    ELSE CHOOSE v \in Reversible : \A w \in Reversible : w <= v

Rollbacks == {i \in 1..Len(oplog) : oplog[i].op = "rollback"}

\* C8: rollback() takes its target from the static list alone, the last down
\* entry, whatever the ledger records; it runs that reverse script and then
\* deletes the ledger row of that version.
C8_TargetFromList ==
    \A i \in Rollbacks :
        LET e == oplog[i] IN
        /\ e.version = LastReversible
        /\ e.scriptRan => e.schemaAfter = e.schemaBefore \ {e.version}
        /\ e.result = "Ok" =>
              /\ e.scriptRan
              /\ e.ledgerAfter = e.ledgerBefore \ {e.version}

\* A rollback succeeded, and a later one took the same target although the
\* ledger no longer records it and records another reversible migration.
C8_Witness ==
    \E i \in Rollbacks, j \in Rollbacks :
        /\ i < j
        /\ oplog[i].result = "Ok"
        /\ oplog[j].version # 0
        /\ oplog[j].version \notin oplog[j].ledgerBefore
        /\ oplog[j].ledgerBefore \cap Reversible # {}

FullyMigrated(e) == e.ledgerBefore = Versions /\ e.schemaBefore = Versions

\* C9: a successful rollback() on a fully migrated database removes exactly
\* the ledger row of the last reversible migration and no other.
C9_OneRowRemoved ==
    \A i \in Rollbacks :
        LET e == oplog[i] IN
        (e.result = "Ok" /\ FullyMigrated(e)) =>
            /\ e.ledgerAfter \subseteq e.ledgerBefore
            /\ e.ledgerBefore \ e.ledgerAfter = {LastReversible}
            /\ Cardinality(e.ledgerAfter) = Cardinality(e.ledgerBefore) - 1

C9_Witness ==
    \E i \in Rollbacks :
        /\ oplog[i].result = "Ok"
        /\ FullyMigrated(oplog[i])
        /\ oplog[i].ledgerAfter # {}

\* A rollback that directly follows a successful one, with no reversible
\* migration left applied.
SecondRollback(i) ==
    /\ i \in Rollbacks
    /\ i + 1 \in Rollbacks
    /\ oplog[i].result = "Ok"
    /\ oplog[i + 1].ledgerBefore \cap Reversible = {}

Migrations == {i \in 1..Len(oplog) : oplog[i].op = "migrate"}

Served == res.status # 0 \/ reqlog # << >>

\* What one run of migrate() added to the ledger.
AppliedBy(e) == e.ledgerAfter \ e.ledgerBefore

\* C11: migrate() applies the not-yet-applied migrations in list order and
\* records each in the ledger, all of them when it returns Ok; when it
\* returns an error the server halts before it binds its listener, so a
\* request is served only after every forward migration has been applied.
C11_MigratedBeforeServing ==
    /\ \A i \in Migrations :
         LET e == oplog[i] IN
         /\ \A v \in AppliedBy(e), u \in Versions \ e.ledgerBefore :
                u < v => u \in AppliedBy(e)
         /\ e.schemaAfter = e.schemaBefore \cup AppliedBy(e)
         /\ e.result = "Ok" => e.ledgerAfter = Versions
         /\ e.result # "Ok" => e.ledgerAfter # Versions /\ serverPc = "halted"
    /\ serverPc = "serving" => Migrations # {} /\ ledger = Versions
    /\ Served => serverPc = "serving"

\* A request was served by a server whose start applied two migrations or
\* more.
C11_Witness ==
    /\ Served
    /\ \E i \in Migrations : Cardinality(AppliedBy(oplog[i])) >= 2

\* --------------------------------------------------- scheduler start
\* The monitor tasks that have run their fetch of the site list.
Fetched == {t \in 1..Len(tasks) : tasks[t].pc # "sites"}

\* C12: no tick fetches the site list or upserts a response before the
\* forward migrations have been applied: whenever a monitor task is past
\* its fetch, every forward migration is in the ledger and in the schema.
C12_MigratedBeforeTick ==
    Fetched # {} => ledger = Versions /\ schema = Versions

\* ------------------------------------------------------------ logins
LoginCount(u) == Cardinality({l \in logins : l.user_id = u})

\* C13: a user has one Login row immediately after the user's signup, and
\* two after one subsequent successful login with the user's login code.
C13_LoginCountAfterSignup ==
    \A u \in UserIds :
        /\ auths[u] = << "signup" >> => LoginCount(u) = 1
        /\ auths[u] = << "signup", "login" >> => LoginCount(u) = 2

\* C14: in every reachable state a user has as many Login rows as the
\* signup and login handlers have stored the user's id in a session, also
\* when insert_login returned an error.
C14_LoginRowPerAuthentication ==
    \A u \in UserIds : LoginCount(u) = Len(auths[u])

\* ------------------------------------------------------- login codes
UniqueLoginCodes ==
    \A u \in users, o \in users : u.login_code = o.login_code => u = o

\* C15: after any sequence of insert_user calls no two User rows share a
\* login_code: every row insert_user adds has a login_code different from
\* that of every user that existed before the call.
C15_LoginCodesUnique ==
    [][/\ \A u \in users' \ users, o \in users : u.login_code # o.login_code
       /\ UniqueLoginCodes']_vars

\* Two users were inserted.
C15_Witness == Cardinality(users) >= 2 /\ UniqueLoginCodes

\* -------------------------------------------------------- concurrency
\* The probe of the k-th listed site of monitor task t.
ProbeOf(t, k) == tasks[t].i = k /\ MonitorProbe(t)

\* C16: a tick runs the probe-then-store of every site as its own task: in
\* a running tick the probe of each site not yet probed can be taken at
\* once, it waits for the probe or the upsert of no other site.
C16_SitesIndependent ==
    \A t \in 1..Len(tasks) :
        tasks[t].pc \notin {"sites", "done"} =>
            \A k \in 1..Len(tasks[t].sites) :
                tasks[t].sites[k].id \notin ProbedIn(tasks[t]) =>
                    ENABLED ProbeOf(t, k)

\* The monitor tasks in flight.
InFlight == {t \in 1..Len(tasks) : tasks[t].pc # "done"}

\* C17: when a tick is due while monitor tasks of earlier ticks are in
\* flight, the loop dispatches the new tick's task at once, and every task
\* in flight can take its next step whatever the other tasks do.
C17_TicksOverlap ==
    /\ (InFlight # {} /\ Len(tasks) < MaxTicks /\ IntervalDue) => ENABLED MainTick
    /\ \A t \in InFlight : ENABLED MonitorStep(t)

\* A tick was dispatched while an earlier tick's task was in flight, and
\* both are in flight together.
C17_Witness ==
    \E t \in InFlight, u \in InFlight : t < u /\ tasks[u].seen = {"running"}

\* C18: all scheduler work shares one connection pool that caps the open
\* connections: at every moment the scheduler process has one pool at
\* most, holding max_connections connections at most.
C18_OneSharedPool ==
    /\ Cardinality(PoolsOpen) <= 1
    /\ ConnectionsOpen <= max_connections

\* ------------------------------------------------------------- rows
\* Row r2 is row r but for its updated_at.
SameButUpdatedAt(r, r2) ==
    /\ r2.id = r.id
    /\ r2.status_code = r.status_code
    /\ r2.site_id = r.site_id
    /\ r2.created_at = r.created_at

\* C19: an upsert_response that hits an existing (status_code, site_id) row
\* changes that row's updated_at and nothing else: in every step each
\* Response row keeps its id, status_code, site_id and created_at, and one
\* row at most changes at all.
C19_ConflictTouchesUpdatedAt ==
    [][/\ \A r \in responses : \E r2 \in responses' : SameButUpdatedAt(r, r2)
       /\ Cardinality(responses \ responses') <= 1]_vars

\* An upsert hit an existing row, whose updated_at moved, next to another
\* row.
C19_Witness ==
    \E r \in responses, o \in responses :
        r # o /\ r.updated_at > r.created_at

\* C20: over any sequence of gateway operations and handlers (rollback
\* aside) User, Login and Site rows are append-only, never modified or
\* deleted, and no Response row is ever deleted.
C20_AppendOnly ==
    [][/\ users \subseteq users'
       /\ logins \subseteq logins'
       /\ sites \subseteq sites'
       /\ \A r \in responses : \E r2 \in responses' : r2.id = r.id]_vars

\* Every table holds rows, and a user who had signed in has logged out.
C20_Witness ==
    /\ users # {} /\ logins # {} /\ sites # {} /\ responses # {}
    /\ session = 0
    /\ \E u \in UserIds : auths[u] # << >>

\* ------------------------------------------------------------ retries
Occurrences(q, x) == Cardinality({k \in 1..Len(q) : q[k] = x})

\* A site's probe failed in an earlier tick and the site was probed again
\* in a later one.
ProbedAgainNextTick ==
    \E t \in 1..Len(tasks), u \in 1..Len(tasks), s \in SiteIds :
        /\ t < u
        /\ <<s, NetErr>> \in tasks[t].probed
        /\ Occurrences(tasks[u].probes, s) = 1

\* C21: within one tick each site of the fetched list is probed once at
\* most and has one upsert at most issued for it; a failed probe is not
\* repeated in its tick.
C21_NoRetryWithinTick ==
    \A t \in 1..Len(tasks), s \in SiteIds :
        /\ Occurrences(tasks[t].probes, s) <= 1
        /\ Occurrences(tasks[t].upserts, s) <= 1
        /\ Occurrences(tasks[t].upserts, s) <= Occurrences(tasks[t].probes, s)
        /\ s \in ProbedIn(tasks[t]) <=> Occurrences(tasks[t].probes, s) = 1

\* A tick with two sites probed and upserted both, and a site whose probe
\* failed in one tick is probed again by the next.
C21_Witness ==
    /\ \E t \in 1..Len(tasks) : Len(tasks[t].upserts) >= 2
    /\ ProbedAgainNextTick

\* ------------------------------------------------------ rejections
\* C22: a signup request with an empty url is rejected with no partial
\* write: the step creates no User row, no Login row and no Site row, and
\* stores no user id in the session.
C22_EmptyUrlSignupWritesNothing ==
    [][(signupWeb /\ reqlog' # << >> /\ reqlog'[1].op = "signup"
            /\ reqlog'[1].url = "")
        => /\ users' = users
           /\ logins' = logins
           /\ sites' = sites
           /\ session' = session]_vars

\* C25: a login request whose login_code matches no User row, or whose
\* body does not parse, answers 401 with the Login error, appends no Login
\* row and stores no user id in the session.
C25_FailedLoginWritesNothing ==
    [][\/ /\ res'.status = 401
          /\ res'.body = "Login"
          /\ logins' = logins
          /\ session' = session
          /\ users' = users
       \/ res'.by # "login"
       \/ \A parsed \in BOOLEAN, login_code \in Codes,
             selectErr \in BOOLEAN, loginErr \in BOOLEAN :
             (~parsed \/ \A u \in users : u.login_code # login_code)
                 => ~LoginRequest(parsed, login_code, selectErr, loginErr)]_vars

\* A login was refused while a user exists and another user is signed in.
C25_Witness ==
    /\ res = [status |-> 401, body |-> "Login", by |-> "login"]
    /\ users # {}
    /\ session # 0

\* ------------------------------------------------- rollback failures
\* C23: when the static list holds no reversible migration, or the reverse
\* script fails, rollback() returns the Rollback error and the ledger is
\* as it was: the ledger statement is not run.
C23_NoDeletionAfterScriptFailure ==
    \A i \in Rollbacks :
        LET e == oplog[i] IN
        (Reversible = {} \/ ~e.scriptRan) =>
            /\ e.result = "Rollback"
            /\ e.ledgerAfter = e.ledgerBefore

\* The reverse script of a version whose ledger row is present failed.
C23_Witness ==
    \E i \in Rollbacks :
        /\ ~oplog[i].scriptRan
        /\ oplog[i].version # 0
        /\ oplog[i].version \in oplog[i].ledgerBefore

\* C24: the reverse script and the ledger deletion are two steps with no
\* transaction around them: when the script has run and the deletion
\* fails, rollback() returns the Rollback error, the schema is what the
\* script left and the ledger is as it was, the version's row included.
C24_ScriptStaysWithoutLedgerDeletion ==
    \A i \in Rollbacks :
        LET e == oplog[i] IN
        (e.scriptRan /\ e.result = "Rollback") =>
            /\ e.schemaAfter = DownScript(e.version, e.schemaBefore)
            /\ e.version \notin e.schemaAfter
            /\ e.ledgerAfter = e.ledgerBefore

\* The script dropped the objects of a version and the version's ledger
\* row is still there.
C24_Witness ==
    \E i \in Rollbacks :
        /\ oplog[i].scriptRan
        /\ oplog[i].result = "Rollback"
        /\ oplog[i].version \in oplog[i].schemaBefore \ oplog[i].schemaAfter
        /\ oplog[i].version \in oplog[i].ledgerAfter

\* ------------------------------------------------------------ progress
\* C26: under a fair timer every registered site whose probes return an
\* HTTP status eventually has a Response row, whatever the other sites do:
\* a site that ticks list again and again comes to have a row, unless a
\* probe or an upsert of the site itself fails.
C26_ListedSiteGetsRow ==
    \A s \in SiteIds :
        []<>(\E t \in 1..Len(tasks) : s \in ListedIn(tasks[t]))
            => <>(\/ RowsOf(s) # {}
                  \/ \E t \in 1..Len(tasks) : s \in FailedIn(tasks[t]))

\* ---------------------------------------------------------- references
ReferencesHold ==
    /\ \A r \in responses : r.site_id \in Ids(sites)
    /\ \A s \in sites : s.user_id \in Ids(users)
    /\ \A l \in logins : l.user_id \in Ids(users)

\* C27: referential integrity holds in every reachable state: a Response
\* row's site_id is the id of a Site row, a Site row's and a Login row's
\* user_id is the id of a User row; and a site the add-site form creates is
\* created for a present current user, who owns it.
C27_ReferentialIntegrity ==
    [][/\ ReferencesHold'
       /\ (sites' # sites /\ onadd) =>
              /\ session \in Ids(users)
              /\ \A s \in sites' \ sites : s.user_id = session]_vars

\* With every table holding rows, the add-site form has created a site.
C27_Witness ==
    /\ logins # {} /\ responses # {}
    /\ reqlog # << >>
    /\ reqlog[1].op = "onadd"
    /\ reqlog[1].sitesAfter # reqlog[1].sitesBefore

====
